---- MODULE Spec2Model ----
(***************************************************************************)
(* The course portal's request pipeline (src/server.js): the session       *)
(* guards, login and logout, the read-only routes and the admin CRUD       *)
(* routes over the modules and lessons tables, and the YouTube URL         *)
(* normalizer behind the lesson page, in its two versions.                 *)
(*                                                                         *)
(* Strings that the handlers trim, lower-case or convert to a number are   *)
(* sequences of one-character strings; strings that are only compared      *)
(* (passwords, roles, view names) are TLA+ strings.                        *)
(***************************************************************************)
EXTENDS Integers, Sequences, FiniteSets, Bags, TLC

VARIABLES
  users,         \* users table: id -> [email, password_hash, role]
  modules,       \* modules table: id -> [title, description, sort_order]
  lessons,       \* lessons table: id -> [module_id, title, content_md, youtube_url, sort_order]
  nextModuleId,  \* AUTOINCREMENT counter of modules
  nextLessonId,  \* AUTOINCREMENT counter of lessons
  store,         \* the session store: cookie token -> the session's user (NoUser when none)
  pending,       \* POST /login requests suspended at `await bcrypt.compare`: a bag,
                 \* requests alike in session, user and password being several
  destroying,    \* per session, the POST /logout requests whose session.destroy
                 \* has removed the entry and has not yet called back
  resp,          \* the response to the last completed request
  loggedOut      \* history: the sessions whose last logout response no POST /login
                 \* has yet followed with a success (of the logins that succeed,
                 \* those that found a user in the session were made before it)

vars == <<users, modules, lessons, nextModuleId, nextLessonId, store, pending, destroying,
         resp, loggedOut>>
db == <<users, modules, lessons, nextModuleId, nextLessonId>>

(* ------------------------------ bounds --------------------------------- *)

\* Largest id the modules table hands out (the seed takes id 1).
MaxModuleId == 2
\* Largest id the lessons table hands out (the seed takes ids 1 and 2).
MaxLessonId == 3
\* Largest number of POST /login requests suspended at once.
MaxPending == 2
\* Largest number of POST /logout requests of one session waiting at once
\* for session.destroy to call back.
MaxDestroying == 1

\* The browsers' session cookies.
Sessions == {"s1", "s2"}

(* ------------------------------ strings -------------------------------- *)

\* The lower-case letter of each upper-case letter.
LowerOf ==
  [A |-> "a", B |-> "b", C |-> "c", D |-> "d", E |-> "e", F |-> "f", G |-> "g",
   H |-> "h", I |-> "i", J |-> "j", K |-> "k", L |-> "l", M |-> "m", N |-> "n",
   O |-> "o", P |-> "p", Q |-> "q", R |-> "r", S |-> "s", T |-> "t", U |-> "u",
   V |-> "v", W |-> "w", X |-> "x", Y |-> "y", Z |-> "z"]
\* The value of each decimal digit.
DigitOf ==
  ("0" :> 0) @@ ("1" :> 1) @@ ("2" :> 2) @@ ("3" :> 3) @@ ("4" :> 4) @@ ("5" :> 5)
  @@ ("6" :> 6) @@ ("7" :> 7) @@ ("8" :> 8) @@ ("9" :> 9)

\* The white space of String.prototype.trim that a form field can carry:
\* space, tab, line feed, carriage return, form feed and vertical tab (the
\* last written as the character itself).
IsSpace(c) == c \in {" ", "\t", "\n", "\r", "\f", ""}

RECURSIVE TrimStart(_)
TrimStart(s) ==
  IF s # <<>> /\ IsSpace(Head(s)) THEN TrimStart(Tail(s)) ELSE s

RECURSIVE TrimEnd(_)
TrimEnd(s) ==
  IF s # <<>> /\ IsSpace(s[Len(s)]) THEN TrimEnd(SubSeq(s, 1, Len(s) - 1)) ELSE s

\* String.prototype.trim
Trim(s) == TrimEnd(TrimStart(s))

LowerChar(c) == IF c \in DOMAIN LowerOf THEN LowerOf[c] ELSE c

\* String.prototype.toLowerCase
ToLowerCase(s) == [i \in 1..Len(s) |-> LowerChar(s[i])]

IsDigit(c) == c \in DOMAIN DigitOf
DigitVal(c) == DigitOf[c]

RECURSIVE DecimalVal(_)
DecimalVal(s) ==
  IF s = <<>> THEN 0 ELSE 10 * DecimalVal(SubSeq(s, 1, Len(s) - 1)) + DigitVal(s[Len(s)])

\* A number: NaN, an infinity (inf is its sign) or the integer val.
NaN == [nan |-> TRUE, inf |-> 0, val |-> 0]
Num(n) == [nan |-> FALSE, inf |-> 0, val |-> n]
Infinity == [nan |-> FALSE, inf |-> 1, val |-> 0]
\* -x
Negate(x) == [x EXCEPT !.inf = -@, !.val = -@]
\* x < y, of numbers other than NaN: how ORDER BY compares two sort orders.
NumLess(x, y) == x.inf < y.inf \/ (x.inf = 0 /\ y.inf = 0 /\ x.val < y.val)

\* The value of each digit of a hexadecimal, octal or binary literal.
HexOf ==
  DigitOf @@ ("a" :> 10) @@ ("b" :> 11) @@ ("c" :> 12) @@ ("d" :> 13) @@ ("e" :> 14)
  @@ ("f" :> 15)
IsRadixDigits(s, radix) ==
  /\ s # <<>>
  /\ \A i \in 1..Len(s) :
       LowerChar(s[i]) \in DOMAIN HexOf /\ HexOf[LowerChar(s[i])] < radix
RECURSIVE RadixVal(_, _)
RadixVal(s, radix) ==
  IF s = <<>> THEN 0
  ELSE radix * RadixVal(SubSeq(s, 1, Len(s) - 1), radix) + HexOf[LowerChar(s[Len(s)])]

\* A sequence from its first element other than `zero` on.
WithoutLeading(s, zero) ==
  IF \A i \in 1..Len(s) : s[i] = zero THEN <<>>
  ELSE SubSeq(s, CHOOSE i \in 1..Len(s) : s[i] # zero /\ \A j \in 1..(i - 1) : s[j] = zero,
              Len(s))
\* Digits without the zeros they start with, and bits likewise.
Significant(digits) == WithoutLeading(digits, "0")
SignificantBits(bits) == WithoutLeading(bits, 0)

RECURSIVE Pow2(_)
Pow2(k) == IF k = 0 THEN 1 ELSE 2 * Pow2(k - 1)
\* The bits of a literal whose digits are `width` bits each, the highest first.
BitsOf(digits, width) ==
  [k \in 1..(Len(digits) * width) |->
     (HexOf[LowerChar(digits[((k - 1) \div width) + 1])]
        \div Pow2(width - 1 - ((k - 1) % width))) % 2]

\* A double holds magnitudes below 2^1024; a literal that is at least
\* 2^1024 - 2^970, whose 1024 bits start with 54 ones, rounds to Infinity.
DoubleBits == 1024
RoundingBits == 54

\* The digits of a hexadecimal, octal or binary literal, after 0x, 0o or 0b.
RadixLiteral(digits, radix, width) ==
  LET bits == SignificantBits(BitsOf(digits, width)) IN
  IF ~IsRadixDigits(digits, radix) THEN NaN
  ELSE IF \/ Len(bits) > DoubleBits
          \/ Len(bits) = DoubleBits /\ \A i \in 1..RoundingBits : bits[i] = 1
  THEN Infinity
  ELSE Num(RadixVal(Significant(digits), radix))

IsDigits(s) == s # <<>> /\ \A i \in 1..Len(s) : IsDigit(s[i])

\* An optional sign: its factor and what follows it.
Sign(s) == IF s # <<>> /\ Head(s) = "-" THEN -1 ELSE 1
Unsigned(s) == IF s # <<>> /\ Head(s) \in {"+", "-"} THEN Tail(s) ELSE s

\* Where a decimal literal rounds to Infinity and where to 0: it is the
\* fraction 0.d1d2... times 10^point, of its significant digits d1d2..., and
\* is Infinity from 2^1024 - 2^970 = 0.17976... * 10^309 on and 0 up to
\* 2^-1075 = 0.24703... * 10^-323. Of the two bounds the first digits.
OverflowPoint == 309
OverflowBound ==
  <<"1", "7", "9", "7", "6", "9", "3", "1", "3", "4",
     "8", "6", "2", "3", "1", "5", "8", "0", "7", "9",
     "3", "7", "2", "8", "9", "7", "1", "4", "0", "5">>
UnderflowPoint == -323
UnderflowBound ==
  <<"2", "4", "7", "0", "3", "2", "8", "2", "2", "9",
     "2", "0", "6", "2", "3", "2", "7", "2", "0", "8",
     "8", "2", "8", "4", "3", "9", "6", "4", "3", "4">>
\* An exponent of more digits than this is beyond both points, as this one is.
MaxExponentDigits == 4
HugeExponent == 10000

\* Whether the digits a, as the fraction 0.a, are above the bound (which
\* goes on after the digits given here, so that equal digits are below it).
Above(a, bound) ==
  \E i \in 1..Len(a) :
    /\ i <= Len(bound)
    /\ DigitVal(a[i]) > DigitVal(bound[i])
    /\ \A j \in 1..(i - 1) : a[j] = bound[j]

\* A decimal literal: sign, digits, and an optional exponent part (e or E,
\* sign, digits); or a signed Infinity.
DecimalLiteral(t) ==
  LET body == Unsigned(t)
      e == IF \E i \in 1..Len(body) : body[i] \in {"e", "E"}
           THEN CHOOSE i \in 1..Len(body) :
                  body[i] \in {"e", "E"} /\ \A j \in 1..(i - 1) : body[j] \notin {"e", "E"}
           ELSE Len(body) + 1
      mantissa == SubSeq(body, 1, e - 1)
      exponent == SubSeq(body, e + 1, Len(body))
      digits == Significant(mantissa)
      exponentDigits == Significant(Unsigned(exponent))
      exponentVal == IF Len(exponentDigits) > MaxExponentDigits
                     THEN HugeExponent
                     ELSE DecimalVal(exponentDigits)
      point == Len(digits) + Sign(exponent) * exponentVal
      whole == SubSeq(digits, 1, IF point < Len(digits) THEN point ELSE Len(digits))
                 \o [i \in 1..(point - Len(digits)) |-> "0"]
      magnitude ==
        IF digits = <<>> THEN Num(0)
        ELSE IF \/ point > OverflowPoint
                \/ point = OverflowPoint /\ Above(digits, OverflowBound)
        THEN Infinity
        ELSE IF \/ point < UnderflowPoint
                \/ point = UnderflowPoint /\ ~Above(digits, UnderflowBound)
        THEN Num(0)
        ELSE Num(DecimalVal(whole))
  IN
  IF body = <<"I", "n", "f", "i", "n", "i", "t", "y">>
  THEN (IF Sign(t) = 1 THEN Infinity ELSE Negate(Infinity))
  ELSE IF ~IsDigits(mantissa) THEN NaN
  ELSE IF e <= Len(body) /\ ~IsDigits(Unsigned(exponent)) THEN NaN
  ELSE IF Sign(t) = 1 THEN magnitude ELSE Negate(magnitude)

\* Number(raw || 0) for a form field that is missing, empty, or a string of
\* digits, letters, signs and white space: a missing, empty or blank field
\* gives 0; a hexadecimal (0x), octal (0o) or binary (0b) literal, which
\* takes no sign, gives its value; a decimal literal with its sign and
\* exponent gives its value, a signed Infinity gives the infinity; anything
\* else gives NaN. The fields denote integers below 2^31 in magnitude, or
\* an infinity, in at most 30 significant digits: no field has a decimal
\* point or denotes a fraction.
NumberOrZero(raw) ==
  LET t == Trim(raw)
      prefix == IF Len(t) >= 2 THEN ToLowerCase(SubSeq(t, 1, 2)) ELSE <<>>
      digits == SubSeq(t, 3, Len(t))
  IN
  IF t = <<>> THEN Num(0)
  ELSE IF prefix = <<"0", "x">> THEN RadixLiteral(digits, 16, 4)
  ELSE IF prefix = <<"0", "o">> THEN RadixLiteral(digits, 8, 3)
  ELSE IF prefix = <<"0", "b">> THEN RadixLiteral(digits, 2, 1)
  ELSE DecimalLiteral(t)

(* ------------------------------- users --------------------------------- *)

adminEmail ==
  <<"a", "d", "m", "i", "n", "@", "c", "o", "u", "r", "s", "e", ".", "c", "o", "m">>
adminPass == "Admin123!"
studentEmail ==
  <<"s", "t", "u", "d", "e", "n", "t", "@", "c", "o", "u", "r", "s", "e", ".", "c", "o", "m">>
studentPass == "Student123!"

\* bcrypt.hash / bcrypt.compare: a hash verifies exactly the password it was made from.
BcryptHash(password) == <<"bcrypt", password>>
BcryptCompare(password, hash) == hash = BcryptHash(password)

seedUsers ==
  (1 :> [email |-> ToLowerCase(adminEmail), password_hash |-> BcryptHash(adminPass),
         role |-> "admin"])
  @@ (2 :> [email |-> ToLowerCase(studentEmail), password_hash |-> BcryptHash(studentPass),
            role |-> "student"])

\* The seeded content, its texts abbreviated: one module with two lessons.
seedModules ==
  (1 :> [title |-> <<"M", "4">>, description |-> <<"M", "I">>, sort_order |-> Num(1)])
seedLessons ==
  (1 :> [module_id |-> 1, title |-> <<"W", "5">>, content_md |-> <<"#">>,
         youtube_url |-> <<>>, sort_order |-> Num(1)])
  @@ (2 :> [module_id |-> 1, title |-> <<"M", "I">>, content_md |-> <<"#">>,
            youtube_url |-> <<>>, sort_order |-> Num(2)])

(* ------------------------------ sessions ------------------------------- *)

\* req.session.user of a session that carries no user.
NoUser == [id |-> 0, email |-> <<>>, role |-> "none"]

SessionUser(id) == [id |-> id, email |-> users[id].email, role |-> users[id].role]

(* ------------------------------ responses ------------------------------ *)

NoForm == <<>>

\* null, and a string value, where the code has one or the other.
Null == [null |-> TRUE, val |-> <<>>]
Str(v) == [null |-> FALSE, val |-> v]

Redirect(location) ==
  [status |-> 302, location |-> location, view |-> "", text |-> "", error |-> "",
   form |-> NoForm, id |-> 0, rows |-> <<>>, videoId |-> Null]
Render(status, view, error, form) ==
  [status |-> status, location |-> "", view |-> view, text |-> "", error |-> error,
   form |-> form, id |-> 0, rows |-> <<>>, videoId |-> Null]
Send(status, text) ==
  [status |-> status, location |-> "", view |-> "", text |-> text, error |-> "",
   form |-> NoForm, id |-> 0, rows |-> <<>>, videoId |-> Null]
\* res.render(view, { modules }) and res.render("module", { module, lessons }):
\* the row the page is about (0 when none) and the ids of the rows it lists, in order.
\* res.render("lesson", { lesson, videoId, contentHtml })
RenderLesson(id, videoId) ==
  [Render(200, "lesson", "", NoForm) EXCEPT !.id = id, !.videoId = videoId]
RenderRows(view, id, rows) ==
  [Render(200, view, "", NoForm) EXCEPT !.id = id, !.rows = rows]
\* A handler that throws ends in Express's default error handler.
ServerError == Send(500, "Internal Server Error")
\* A guard that calls next().
Pass == Send(0, "next")

\* The response as observed: which request it answers and whether the
\* route's handler body ran.
Reply(route, s, ran, r) ==
  [route |-> route, sid |-> s, ran |-> ran, status |-> r.status, location |-> r.location,
   view |-> r.view, text |-> r.text, error |-> r.error, form |-> r.form,
   id |-> r.id, rows |-> r.rows, videoId |-> r.videoId]

NoReply == Reply("", "", FALSE, Send(0, ""))

(* ------------------------------- guards -------------------------------- *)

requireAuth_Open(s) == Pass
requireAuth(s) ==
  IF store[s] = NoUser THEN Redirect("/login") ELSE Pass

requireAdmin_AnyUser(s) ==
  IF store[s] = NoUser THEN Redirect("/login") ELSE Pass
requireAdmin(s) ==
  IF store[s] = NoUser THEN Redirect("/login")
  ELSE IF store[s].role # "admin" THEN Send(403, "Forbidden")
  ELSE Pass

\* A guarded route: the guard's response, or the handler's when the guard passes.
Guarded(route, s, guard, handled) ==
  IF guard = Pass THEN Reply(route, s, TRUE, handled) ELSE Reply(route, s, FALSE, guard)

(* -------------------------------- init --------------------------------- *)

Init ==
  /\ users = seedUsers
  /\ modules = seedModules
  /\ lessons = seedLessons
  /\ nextModuleId = 2
  /\ nextLessonId = 3
  /\ store = [s \in Sessions |-> NoUser]
  /\ pending = EmptyBag
  /\ destroying = [s \in Sessions |-> 0]
  /\ resp = NoReply
  /\ loggedOut = {}

(* ---------------------------- login, logout ---------------------------- *)

EmailInputs ==
  { adminEmail,
    <<" ", "A">> \o Tail(adminEmail) \o <<" ">>,
    studentEmail,
    <<"x", "@", "y">>,
    <<>> }
PasswordInputs == {adminPass, studentPass}

\* String(req.body.email || "").trim().toLowerCase()
NormalizeEmail(rawEmail) == ToLowerCase(Trim(rawEmail))

UserByEmail(email) == {id \in DOMAIN users : users[id].email = email}

GetLogin_Inverted(s) ==
  /\ resp' = Reply("GET /login", s, TRUE,
                   IF store[s] = NoUser THEN Redirect("/") ELSE Render(200, "login", "", NoForm))
  /\ UNCHANGED <<db, store, pending, destroying, loggedOut>>
GetLogin(s) ==
  /\ resp' = Reply("GET /login", s, TRUE,
                   IF store[s] # NoUser THEN Redirect("/") ELSE Render(200, "login", "", NoForm))
  /\ UNCHANGED <<db, store, pending, destroying, loggedOut>>

\* POST /login up to `await bcrypt.compare`: an unknown email is answered at
\* once; otherwise the request waits, holding the session as it was loaded.
PostLogin(s, rawEmail, password) ==
  LET email == NormalizeEmail(rawEmail)
      found == UserByEmail(email)
  IN
  IF found = {}
  THEN /\ resp' = Reply("POST /login", s, TRUE,
                        Render(401, "login", "Invalid email or password.", NoForm))
       /\ UNCHANGED <<db, store, pending, destroying, loggedOut>>
  ELSE /\ BagCardinality(pending) < MaxPending
       /\ pending' = pending (+) SetToBag(
            {[sid |-> s, user |-> CHOOSE id \in found : TRUE, password |-> password,
              loaded |-> store[s]]})
       /\ UNCHANGED <<db, store, destroying, resp, loggedOut>>

\* The store after the response of a request of session s ends with the
\* request's copy of the session holding `user`, loaded holding `loaded`:
\* with resave: false the copy is written back only if it changed.
SaveIfModified(s, loaded, user) ==
  IF user = loaded THEN store ELSE [store EXCEPT ![s] = user]

PostLoginResume_ClearOnFailure(p) ==
  /\ BagIn(p, pending)
  /\ pending' = pending (-) SetToBag({p})
  /\ IF ~BcryptCompare(p.password, users[p.user].password_hash)
     THEN /\ resp' = Reply("POST /login", p.sid, TRUE,
                           Render(401, "login", "Invalid email or password.", NoForm))
          /\ store' = [store EXCEPT ![p.sid] = NoUser]
          /\ UNCHANGED loggedOut
     ELSE /\ store' = SaveIfModified(p.sid, p.loaded, SessionUser(p.user))
          /\ resp' = Reply("POST /login", p.sid, TRUE, Redirect("/"))
          /\ loggedOut' = IF p.loaded = NoUser THEN loggedOut \ {p.sid} ELSE loggedOut
  /\ UNCHANGED <<db, destroying>>

\* POST /login from the password check on: the request's own copy of the
\* session gets the user and is saved to the store when the response ends.
PostLoginResume(p) ==
  /\ BagIn(p, pending)
  /\ pending' = pending (-) SetToBag({p})
  /\ IF ~BcryptCompare(p.password, users[p.user].password_hash)
     THEN /\ resp' = Reply("POST /login", p.sid, TRUE,
                           Render(401, "login", "Invalid email or password.", NoForm))
          /\ UNCHANGED <<store, loggedOut>>
     ELSE /\ store' = SaveIfModified(p.sid, p.loaded, SessionUser(p.user))
          /\ resp' = Reply("POST /login", p.sid, TRUE, Redirect("/"))
          /\ loggedOut' = IF p.loaded = NoUser THEN loggedOut \ {p.sid} ELSE loggedOut
  /\ UNCHANGED <<db, destroying>>

PostLogout_DestroyAll(s) ==
  LET g == requireAuth(s) IN
  IF g = Pass
  THEN /\ destroying[s] < MaxDestroying
       /\ store' = [t \in Sessions |-> NoUser]
       /\ destroying' = [destroying EXCEPT ![s] = @ + 1]
       /\ UNCHANGED <<db, pending, resp, loggedOut>>
  ELSE /\ resp' = Reply("POST /logout", s, FALSE, g)
       /\ UNCHANGED <<db, store, pending, destroying, loggedOut>>

\* POST /logout up to where the handler returns: req.session.destroy removes
\* the store's entry; the response waits for destroy's callback.
PostLogout(s) ==
  LET g == requireAuth(s) IN
  IF g = Pass
  THEN /\ destroying[s] < MaxDestroying
       /\ store' = [store EXCEPT ![s] = NoUser]
       /\ destroying' = [destroying EXCEPT ![s] = @ + 1]
       /\ UNCHANGED <<db, pending, resp, loggedOut>>
  ELSE /\ resp' = Reply("POST /logout", s, FALSE, g)
       /\ UNCHANGED <<db, store, pending, destroying, loggedOut>>

\* The callback of session.destroy: res.redirect("/login"). The request has
\* no session left to save.
PostLogoutCallback(s) ==
  /\ destroying[s] > 0
  /\ destroying' = [destroying EXCEPT ![s] = @ - 1]
  /\ resp' = Reply("POST /logout", s, TRUE, Redirect("/login"))
  /\ loggedOut' = loggedOut \cup {s}
  /\ UNCHANGED <<db, store, pending>>

(* ------------------------------ storage -------------------------------- *)

Without(table, id) == [k \in DOMAIN table \ {id} |-> table[k]]

\* SELECT ... ORDER BY sort_order ASC, id ASC: the ids of `table` among `ids`, in that order.
RECURSIVE OrderBySortOrderId_IdOnly(_, _)
OrderBySortOrderId_IdOnly(table, ids) ==
  IF ids = {} THEN <<>>
  ELSE LET first == CHOOSE i \in ids : \A j \in ids : i <= j
       IN <<first>> \o OrderBySortOrderId_IdOnly(table, ids \ {first})

RECURSIVE OrderBySortOrderId(_, _)
OrderBySortOrderId(table, ids) ==
  IF ids = {} THEN <<>>
  ELSE LET first == CHOOSE i \in ids : \A j \in ids :
                      \/ NumLess(table[i].sort_order, table[j].sort_order)
                      \/ table[i].sort_order = table[j].sort_order /\ i <= j
       IN <<first>> \o OrderBySortOrderId(table, ids \ {first})

ListModules == OrderBySortOrderId(modules, DOMAIN modules)
ListLessons(moduleId) ==
  OrderBySortOrderId(lessons, {l \in DOMAIN lessons : lessons[l].module_id = moduleId})

\* DELETE FROM modules WHERE id=?, with lessons.module_id ... ON DELETE CASCADE.
LessonsAfterModuleDelete_NoCascade(id) == lessons
LessonsAfterModuleDelete(id) ==
  IF id \in DOMAIN modules
  THEN [l \in {k \in DOMAIN lessons : lessons[k].module_id # id} |-> lessons[l]]
  ELSE lessons

(* ----------------------------- form bodies ----------------------------- *)

\* req.body of the module forms; a missing field and an empty one are both <<>>.
ModuleBodies ==
  { [title |-> <<" ">>, description |-> <<" ", "d">>, sort_order |-> <<"0", "x", "7">>],
    [title |-> <<" ", "a">>, description |-> <<"d", " ">>, sort_order |-> <<>>],
    [title |-> <<"a">>, description |-> <<>>, sort_order |-> <<"x">>] }

\* req.body of the lesson forms.
LessonBodies ==
  { [title |-> <<>>, youtube_url |-> <<"y", " ">>, sort_order |-> <<"x">>,
     content_md |-> <<" ", "c">>],
    [title |-> <<"b", " ">>, youtube_url |-> <<" ", "y">>, sort_order |-> <<"\r", "-", "I", "n", "f", "i", "n", "i", "t", "y">>,
     content_md |-> <<"c", " ">>],
    [title |-> <<"b">>, youtube_url |-> <<>>, sort_order |-> <<"1", "x">>,
     content_md |-> <<>>] }

\* `if (!title)`: the trimmed title is the empty string.
TitleMissing_Never(title) == FALSE
TitleMissing(title) == title = <<>>

ModuleIdParams == 1..MaxModuleId
LessonIdParams == 1..MaxLessonId

(* ------------------------- new URL(...), parseYouTube ------------------ *)
(* URL strings are over letters, digits, _ - . / : ? = & # and blanks, with  *)
(* tabs and newlines anywhere and other white space at the ends only; with *)
(* no userinfo, no IPv4 or IPv6 host, no host label that starts with xn--, *)
(* no scheme "file", and in a path without slashes no blank right before   *)
(* a ? or a #.                                                             *)
(*                                                                         *)
(* Node's URL parser departs from the URL Standard on some paths with dot  *)
(* segments, depending on its version; an operator that takes `parser`     *)
(* gives the Standard's result for "whatwg" and that parser's for "ada".   *)

Parsers == {"whatwg", "ada"}

LowerLetters == {LowerOf[c] : c \in DOMAIN LowerOf}
IsAlpha(c) == c \in DOMAIN LowerOf \/ c \in LowerLetters
\* [A-Za-z0-9_-]
IsIdChar(c) == IsAlpha(c) \/ IsDigit(c) \/ c \in {"_", "-"}

\* The first index of s whose character is in cs, Len(s) + 1 when there is none.
FirstOf(s, cs) ==
  IF \E i \in 1..Len(s) : s[i] \in cs
  THEN CHOOSE i \in 1..Len(s) : s[i] \in cs /\ \A j \in 1..(i - 1) : s[j] \notin cs
  ELSE Len(s) + 1

From(s, i) == SubSeq(s, i, Len(s))
StartsWith(s, prefix) == Len(s) >= Len(prefix) /\ SubSeq(s, 1, Len(prefix)) = prefix
\* String.prototype.endsWith
EndsWith(s, suffix) ==
  Len(s) >= Len(suffix) /\ SubSeq(s, Len(s) - Len(suffix) + 1, Len(s)) = suffix

\* String.prototype.replace(pattern, "") with a string pattern: the first occurrence goes.
RemoveFirst(s, pattern) ==
  IF \E i \in 1..(Len(s) - Len(pattern) + 1) : SubSeq(s, i, i + Len(pattern) - 1) = pattern
  THEN LET i == CHOOSE k \in 1..(Len(s) - Len(pattern) + 1) :
                  /\ SubSeq(s, k, k + Len(pattern) - 1) = pattern
                  /\ \A j \in 1..(k - 1) : SubSeq(s, j, j + Len(pattern) - 1) # pattern
       IN SubSeq(s, 1, i - 1) \o From(s, i + Len(pattern))
  ELSE s
\* String.prototype.replace(/^pattern/, "")
RemovePrefix(s, pattern) == IF StartsWith(s, pattern) THEN From(s, Len(pattern) + 1) ELSE s

\* String.prototype.split(c)
RECURSIVE Split(_, _)
Split(s, c) ==
  LET i == FirstOf(s, {c}) IN
  IF i > Len(s) THEN <<s>> ELSE <<SubSeq(s, 1, i - 1)>> \o Split(From(s, i + 1), c)

\* Array.prototype.filter(Boolean) on strings: the empty ones go.
FilterBoolean(parts) == SelectSeq(parts, LAMBDA x : x # <<>>)

\* Array.prototype.indexOf, counted from 1; 0 when absent.
IndexOf(parts, x) ==
  IF \E i \in 1..Len(parts) : parts[i] = x
  THEN CHOOSE i \in 1..Len(parts) : parts[i] = x /\ \A j \in 1..(i - 1) : parts[j] # x
  ELSE 0

RECURSIVE Join(_, _)
Join(parts, c) ==
  IF parts = <<>> THEN <<>>
  ELSE IF Len(parts) = 1 THEN parts[1]
  ELSE parts[1] \o <<c>> \o Join(Tail(parts), c)

\* The path of segments that Node's parser takes as it stands, dot segments
\* included: nothing in it needs encoding, it does not start with a dot, and
\* the first later segment that starts with a dot is neither "." nor
\* starts with "..".
DotSegmentsOverlooked(segs) ==
  LET dotted == {i \in 2..Len(segs) : StartsWith(segs[i], <<".">>)} IN
  /\ \A i \in 1..Len(segs) : \A k \in 1..Len(segs[i]) : segs[i][k] # " "
  /\ ~StartsWith(segs[1], <<".">>)
  /\ dotted # {}
  /\ LET first == CHOOSE i \in dotted : \A k \in dotted : i <= k
     IN Len(segs[first]) >= 2 /\ segs[first][2] # "."

\* The Standard's path state: "." segments go, ".." segments take the
\* segment before them, and either one at the end leaves a trailing slash;
\* with keepSlash false a ".." at the end that has no segment to take
\* leaves none.
RECURSIVE DropDotSegments(_, _, _)
DropDotSegments(segs, out, keepSlash) ==
  IF segs = <<>> THEN out
  ELSE LET seg == Head(segs)
           last == Len(segs) = 1
           popped == IF out = <<>> THEN out ELSE SubSeq(out, 1, Len(out) - 1)
       IN IF seg = <<".", ".">>
          THEN DropDotSegments(Tail(segs),
                               IF last /\ (keepSlash \/ out # <<>>) THEN popped \o <<<<>>>>
                               ELSE popped,
                               keepSlash)
          ELSE IF seg = <<".">>
          THEN DropDotSegments(Tail(segs), IF last THEN out \o <<<<>>>> ELSE out, keepSlash)
          ELSE DropDotSegments(Tail(segs), out \o <<seg>>, keepSlash)

\* The segments of a parsed path, from the segments as written (at least
\* one, the empty one for the path "/"). The Standard drops the dot
\* segments; Node's parser overlooks them in some paths, and for a scheme
\* that is not special leaves no segment at all when a ".." at the end
\* finds none to take.
RemoveDotSegments(segs, special, parser) ==
  IF parser = "ada" /\ DotSegmentsOverlooked(segs) THEN segs
  ELSE DropDotSegments(segs, <<>>, special \/ parser = "whatwg")

\* A blank in a path is percent-encoded.
RECURSIVE EncodeBlanks(_)
EncodeBlanks(s) ==
  IF s = <<>> THEN <<>>
  ELSE (IF Head(s) = " " THEN <<"%", "2", "0">> ELSE <<Head(s)>>) \o EncodeBlanks(Tail(s))

\* url.pathname of a path of slash-separated segments, empty or starting
\* with a slash.
Pathname(path, special, parser) ==
  IF path = <<>> THEN (IF special THEN <<"/">> ELSE <<>>)
  ELSE LET kept == RemoveDotSegments(Split(Tail(path), "/"), special, parser)
       IN IF kept = <<>> THEN <<>> ELSE <<"/">> \o EncodeBlanks(Join(kept, "/"))

SpecialSchemes == {<<"h", "t", "t", "p">>, <<"h", "t", "t", "p", "s">>, <<"f", "t", "p">>, <<"w", "s">>, <<"w", "s", "s">>}

\* The position of the ":" that ends a scheme, 0 when s starts with no scheme.
SchemeEnd(s) ==
  LET i == FirstOf(s, {":"}) IN
  IF /\ i <= Len(s) /\ i > 1 /\ IsAlpha(s[1])
     /\ \A j \in 2..(i - 1) : IsAlpha(s[j]) \/ IsDigit(s[j]) \/ s[j] \in {"+", "-", "."}
  THEN i ELSE 0

\* new URL(...) throwing.
URLFailure == [ok |-> FALSE, hostname |-> <<>>, pathname |-> <<>>, search |-> <<>>]

\* The query (without its "?") of what follows a path.
SearchOf(tail) ==
  IF tail # <<>> /\ Head(tail) = "?" THEN SubSeq(tail, 2, FirstOf(tail, {"#"}) - 1) ELSE <<>>

RECURSIVE DropZeros(_)
DropZeros(s) == IF s # <<>> /\ Head(s) = "0" THEN DropZeros(Tail(s)) ELSE s
\* A port is a number up to 65535.
PortOutOfRange(port) ==
  LET digits == DropZeros(port) IN
  IF Len(digits) > 5 THEN TRUE ELSE DecimalVal(digits) > 65535

\* What follows the scheme's ":", with an authority: host, optional port, path, query.
URLWithAuthority(rest, special, parser) ==
  LET authEnd == FirstOf(rest, {"/", "?", "#"})
      authority == SubSeq(rest, 1, authEnd - 1)
      colon == FirstOf(authority, {":"})
      host == SubSeq(authority, 1, colon - 1)
      port == From(authority, colon + 1)
      after == From(rest, authEnd)
      pathEnd == FirstOf(after, {"?", "#"})
      path == SubSeq(after, 1, pathEnd - 1)
  IN
  IF \/ special /\ host = <<>>
     \/ host = <<>> /\ colon <= Len(authority)
     \/ \E i \in 1..Len(host) : host[i] = " "
     \/ \E i \in 1..Len(port) : ~IsDigit(port[i])
  THEN URLFailure
  ELSE IF PortOutOfRange(port) THEN URLFailure
  ELSE [ok |-> TRUE,
        hostname |-> IF special THEN ToLowerCase(host) ELSE host,
        pathname |-> Pathname(path, special, parser),
        search |-> SearchOf(From(after, pathEnd))]

RECURSIVE DropSlashes(_)
DropSlashes(s) == IF s # <<>> /\ Head(s) = "/" THEN DropSlashes(Tail(s)) ELSE s

\* The parser drops every tab and newline of its input.
RemoveTabsAndNewlines(s) == SelectSeq(s, LAMBDA c : c \notin {"\t", "\n", "\r"})

\* new URL(raw) with no base: the hostname, the pathname and the query
\* (without its "?"), or the failure when the constructor throws. After a
\* scheme that is not special, two slashes start an authority, one slash
\* starts a path of segments, and anything else is a path taken as it is.
URL(raw, parser) ==
  LET s == RemoveTabsAndNewlines(Trim(raw))
      i == SchemeEnd(s)
      scheme == ToLowerCase(SubSeq(s, 1, i - 1))
      rest == From(s, i + 1)
      pathEnd == FirstOf(rest, {"?", "#"})
      path == SubSeq(rest, 1, pathEnd - 1)
  IN
  IF i = 0 THEN URLFailure
  ELSE IF scheme \in SpecialSchemes THEN URLWithAuthority(DropSlashes(rest), TRUE, parser)
  ELSE IF StartsWith(rest, <<"/", "/">>) THEN URLWithAuthority(From(rest, 3), FALSE, parser)
  ELSE [ok |-> TRUE, hostname |-> <<>>,
        pathname |-> IF StartsWith(rest, <<"/">>) THEN Pathname(path, FALSE, parser) ELSE path,
        search |-> SearchOf(From(rest, pathEnd))]

\* url.searchParams.get(name): the value of the first pair of that name, null when none.
RECURSIVE SearchParamsGetIn(_, _)
SearchParamsGetIn(pairs, name) ==
  IF pairs = <<>> THEN Null
  ELSE LET pair == Head(pairs)
           eq == FirstOf(pair, {"="})
       IN IF SubSeq(pair, 1, eq - 1) = name THEN Str(From(pair, eq + 1))
          ELSE SearchParamsGetIn(Tail(pairs), name)
SearchParamsGet(search, name) ==
  SearchParamsGetIn(FilterBoolean(Split(search, "&")), name)

\* `x` as a condition: neither null nor the empty string.
Truthy(x) == ~x.null /\ x.val # <<>>

\* parts[index + 1] when it is there (the parts are not empty), else null.
PartAfter(parts, index) ==
  IF index >= 1 /\ index + 1 <= Len(parts) THEN Str(parts[index + 1]) ELSE Null

\* parseYouTube of src/server.js.
parseYouTube(url, parser) ==
  IF url = <<>> THEN Null
  ELSE LET u == URL(url, parser) IN
       IF ~u.ok THEN Null
       ELSE LET host == RemoveFirst(u.hostname, <<"w", "w", "w", ".">>) IN
            IF host = <<"y", "o", "u", "t", "u", ".", "b", "e">> THEN Str(From(u.pathname, 2))
            ELSE IF host = <<"y", "o", "u", "t", "u", "b", "e", ".", "c", "o", "m">> \/ host = <<"m", ".", "y", "o", "u", "t", "u", "b", "e", ".", "c", "o", "m">>
            THEN LET v == SearchParamsGet(u.search, <<"v">>)
                     parts == FilterBoolean(Split(u.pathname, "/"))
                     afterEmbed == PartAfter(parts, IndexOf(parts, <<"e", "m", "b", "e", "d">>))
                 IN IF Truthy(v) THEN v
                    ELSE IF Truthy(afterEmbed) THEN afterEmbed
                    ELSE Null
            ELSE Null

\* /^[a-zA-Z0-9_-]{11}$/.test(raw)
IsBareId(raw) == Len(raw) = 11 /\ \A i \in 1..11 : IsIdChar(raw[i])

\* parseYouTube of the server.js kept in src/unnamed/part_001, which adds the
\* shorts and live markers, any host ending in youtube.com and the bare id.
parseYouTubeFallback(url, parser) ==
  LET raw == Trim(url) IN
  IF url = <<>> \/ raw = <<>> THEN Null
  ELSE LET u == URL(raw, parser) IN
       IF ~u.ok THEN (IF IsBareId(raw) THEN Str(raw) ELSE Null)
       ELSE LET host == ToLowerCase(RemovePrefix(u.hostname, <<"w", "w", "w", ".">>)) IN
            IF host = <<"y", "o", "u", "t", "u", ".", "b", "e">>
            THEN LET segs == FilterBoolean(Split(u.pathname, "/")) IN
                 IF segs # <<>> THEN Str(segs[1]) ELSE Null
            ELSE IF EndsWith(host, <<"y", "o", "u", "t", "u", "b", "e", ".", "c", "o", "m">>)
            THEN LET v == SearchParamsGet(u.search, <<"v">>)
                     parts == FilterBoolean(Split(u.pathname, "/"))
                     afterEmbed == PartAfter(parts, IndexOf(parts, <<"e", "m", "b", "e", "d">>))
                     afterShorts == PartAfter(parts, IndexOf(parts, <<"s", "h", "o", "r", "t", "s">>))
                     afterLive == PartAfter(parts, IndexOf(parts, <<"l", "i", "v", "e">>))
                 IN IF Truthy(v) THEN v
                    ELSE IF Truthy(afterEmbed) THEN afterEmbed
                    ELSE IF Truthy(afterShorts) THEN afterShorts
                    ELSE IF Truthy(afterLive) THEN afterLive
                    ELSE Null
            ELSE Null

(* ----------------------------- lesson videos --------------------------- *)

\* Video ids: 11 characters over [A-Za-z0-9_-].
VideoIds == { <<"d", "Q", "w", "4", "w", "9", "W", "g", "X", "c", "Q">>, <<"a", "_", "b", "-", "c", "_", "d", "-", "e", "_", "f">> }

\* The URL forms of a video id.
WatchUrl(x) == <<"h", "t", "t", "p", "s", ":", "/", "/", "w", "w", "w", ".", "y", "o", "u", "t", "u", "b", "e", ".", "c", "o", "m", "/", "w", "a", "t", "c", "h", "?", "v", "=">> \o x
ShortUrl(x) == <<"h", "t", "t", "p", "s", ":", "/", "/", "y", "o", "u", "t", "u", ".", "b", "e", "/">> \o x
EmbedUrl(x) == <<"h", "t", "t", "p", "s", ":", "/", "/", "y", "o", "u", "t", "u", "b", "e", ".", "c", "o", "m", "/", "e", "m", "b", "e", "d", "/">> \o x
ShortsUrl(x) == <<"h", "t", "t", "p", "s", ":", "/", "/", "y", "o", "u", "t", "u", "b", "e", ".", "c", "o", "m", "/", "s", "h", "o", "r", "t", "s", "/">> \o x

\* lessons.youtube_url values: the forms of each video id, the id alone, and
\* other strings, the empty one last.
YouTubeInputs ==
  UNION {{WatchUrl(x), ShortUrl(x), EmbedUrl(x), ShortsUrl(x), x} : x \in VideoIds}
  \cup {
    \* https://vimeo.com/123
    <<"h", "t", "t", "p", "s", ":", "/", "/", "v", "i", "m", "e", "o", ".", "c", "o", "m", "/", "1", "2", "3">>,
    \* https://youtu.be/
    <<"h", "t", "t", "p", "s", ":", "/", "/", "y", "o", "u", "t", "u", ".", "b", "e", "/">>,
    \* https://youtu.be/dQw4w9WgXcQ/extra
    <<"h", "t", "t", "p", "s", ":", "/", "/", "y", "o", "u", "t", "u", ".", "b", "e", "/", "d", "Q", "w", "4", "w", "9", "W", "g", "X", "c", "Q", "/", "e", "x", "t", "r", "a">>,
    \* https://www.youtube.com/watch?v=abc
    <<"h", "t", "t", "p", "s", ":", "/", "/", "w", "w", "w", ".", "y", "o", "u", "t", "u", "b", "e", ".", "c", "o", "m", "/", "w", "a", "t", "c", "h", "?", "v", "=", "a", "b", "c">>,
    \* https://www.youtube.com/watch?v=
    <<"h", "t", "t", "p", "s", ":", "/", "/", "w", "w", "w", ".", "y", "o", "u", "t", "u", "b", "e", ".", "c", "o", "m", "/", "w", "a", "t", "c", "h", "?", "v", "=">>,
    \* https://www.youtube.com/watch?list=x&v=dQw4w9WgXcQ
    <<"h", "t", "t", "p", "s", ":", "/", "/", "w", "w", "w", ".", "y", "o", "u", "t", "u", "b", "e", ".", "c", "o", "m", "/", "w", "a", "t", "c", "h", "?", "l", "i", "s", "t", "=", "x", "&", "v", "=", "d", "Q", "w", "4", "w", "9", "W", "g", "X", "c", "Q">>,
    \* https://m.youtube.com/watch?v=dQw4w9WgXcQ
    <<"h", "t", "t", "p", "s", ":", "/", "/", "m", ".", "y", "o", "u", "t", "u", "b", "e", ".", "c", "o", "m", "/", "w", "a", "t", "c", "h", "?", "v", "=", "d", "Q", "w", "4", "w", "9", "W", "g", "X", "c", "Q">>,
    \* https://music.youtube.com/watch?v=dQw4w9WgXcQ
    <<"h", "t", "t", "p", "s", ":", "/", "/", "m", "u", "s", "i", "c", ".", "y", "o", "u", "t", "u", "b", "e", ".", "c", "o", "m", "/", "w", "a", "t", "c", "h", "?", "v", "=", "d", "Q", "w", "4", "w", "9", "W", "g", "X", "c", "Q">>,
    \* https://www.youtube.com/shorts/dQw4w9WgXcQ/embed
    <<"h", "t", "t", "p", "s", ":", "/", "/", "w", "w", "w", ".", "y", "o", "u", "t", "u", "b", "e", ".", "c", "o", "m", "/", "s", "h", "o", "r", "t", "s", "/", "d", "Q", "w", "4", "w", "9", "W", "g", "X", "c", "Q", "/", "e", "m", "b", "e", "d">>,
    \* https://www.youtube.com/live/dQw4w9WgXcQ
    <<"h", "t", "t", "p", "s", ":", "/", "/", "w", "w", "w", ".", "y", "o", "u", "t", "u", "b", "e", ".", "c", "o", "m", "/", "l", "i", "v", "e", "/", "d", "Q", "w", "4", "w", "9", "W", "g", "X", "c", "Q">>,
    \* https://www.youtube.com/shorts/abc/embed/dQw4w9WgXcQ
    <<"h", "t", "t", "p", "s", ":", "/", "/", "w", "w", "w", ".", "y", "o", "u", "t", "u", "b", "e", ".", "c", "o", "m", "/", "s", "h", "o", "r", "t", "s", "/", "a", "b", "c", "/", "e", "m", "b", "e", "d", "/", "d", "Q", "w", "4", "w", "9", "W", "g", "X", "c", "Q">>,
    \* https://www.youtube.com/live/abc/shorts/dQw4w9WgXcQ
    <<"h", "t", "t", "p", "s", ":", "/", "/", "w", "w", "w", ".", "y", "o", "u", "t", "u", "b", "e", ".", "c", "o", "m", "/", "l", "i", "v", "e", "/", "a", "b", "c", "/", "s", "h", "o", "r", "t", "s", "/", "d", "Q", "w", "4", "w", "9", "W", "g", "X", "c", "Q">>,
    \* HTTPS://WWW.YouTube.COM/embed/dQw4w9WgXcQ
    <<"H", "T", "T", "P", "S", ":", "/", "/", "W", "W", "W", ".", "Y", "o", "u", "T", "u", "b", "e", ".", "C", "O", "M", "/", "e", "m", "b", "e", "d", "/", "d", "Q", "w", "4", "w", "9", "W", "g", "X", "c", "Q">>,
    \* https://youtube.com/embed
    <<"h", "t", "t", "p", "s", ":", "/", "/", "y", "o", "u", "t", "u", "b", "e", ".", "c", "o", "m", "/", "e", "m", "b", "e", "d">>,
    \* https://youtube.com/
    <<"h", "t", "t", "p", "s", ":", "/", "/", "y", "o", "u", "t", "u", "b", "e", ".", "c", "o", "m", "/">>,
    \* not a url
    <<"n", "o", "t", " ", "a", " ", "u", "r", "l">>,
    \* abcdefghij
    <<"a", "b", "c", "d", "e", "f", "g", "h", "i", "j">>,
    \* abcdefghijkl
    <<"a", "b", "c", "d", "e", "f", "g", "h", "i", "j", "k", "l">>,
    \* vimeo:123
    <<"v", "i", "m", "e", "o", ":", "1", "2", "3">>,
    \* https://notyoutube.com/watch?v=dQw4w9WgXcQ
    <<"h", "t", "t", "p", "s", ":", "/", "/", "n", "o", "t", "y", "o", "u", "t", "u", "b", "e", ".", "c", "o", "m", "/", "w", "a", "t", "c", "h", "?", "v", "=", "d", "Q", "w", "4", "w", "9", "W", "g", "X", "c", "Q">>,
    \* https://youtube.com/a/../embed/dQw4w9WgXcQ
    <<"h", "t", "t", "p", "s", ":", "/", "/", "y", "o", "u", "t", "u", "b", "e", ".", "c", "o", "m", "/", "a", "/", ".", ".", "/", "e", "m", "b", "e", "d", "/", "d", "Q", "w", "4", "w", "9", "W", "g", "X", "c", "Q">>,
    \* https://youtube.com:443/embed/dQw4w9WgXcQ
    <<"h", "t", "t", "p", "s", ":", "/", "/", "y", "o", "u", "t", "u", "b", "e", ".", "c", "o", "m", ":", "4", "4", "3", "/", "e", "m", "b", "e", "d", "/", "d", "Q", "w", "4", "w", "9", "W", "g", "X", "c", "Q">>,
    \* https://m.www.youtube.com/embed/dQw4w9WgXcQ
    <<"h", "t", "t", "p", "s", ":", "/", "/", "m", ".", "w", "w", "w", ".", "y", "o", "u", "t", "u", "b", "e", ".", "c", "o", "m", "/", "e", "m", "b", "e", "d", "/", "d", "Q", "w", "4", "w", "9", "W", "g", "X", "c", "Q">>,
    \* https://youtube.com/watch?v=dQw4w9WgXcQ#t=1
    <<"h", "t", "t", "p", "s", ":", "/", "/", "y", "o", "u", "t", "u", "b", "e", ".", "c", "o", "m", "/", "w", "a", "t", "c", "h", "?", "v", "=", "d", "Q", "w", "4", "w", "9", "W", "g", "X", "c", "Q", "#", "t", "=", "1">>,
    \* https://www.youtube.com/embed/dQw4w9WgXcQ?rel=0
    <<"h", "t", "t", "p", "s", ":", "/", "/", "w", "w", "w", ".", "y", "o", "u", "t", "u", "b", "e", ".", "c", "o", "m", "/", "e", "m", "b", "e", "d", "/", "d", "Q", "w", "4", "w", "9", "W", "g", "X", "c", "Q", "?", "r", "e", "l", "=", "0">>,
    \* youtube.com/watch?v=dQw4w9WgXcQ
    <<"y", "o", "u", "t", "u", "b", "e", ".", "c", "o", "m", "/", "w", "a", "t", "c", "h", "?", "v", "=", "d", "Q", "w", "4", "w", "9", "W", "g", "X", "c", "Q">>,
    \* https://www.youtube.com/watch?vv=abc&v=dQw4w9WgXcQ&v=abc
    <<"h", "t", "t", "p", "s", ":", "/", "/", "w", "w", "w", ".", "y", "o", "u", "t", "u", "b", "e", ".", "c", "o", "m", "/", "w", "a", "t", "c", "h", "?", "v", "v", "=", "a", "b", "c", "&", "v", "=", "d", "Q", "w", "4", "w", "9", "W", "g", "X", "c", "Q", "&", "v", "=", "a", "b", "c">>,
    \* https://www.youtube.com/watch/embed
    <<"h", "t", "t", "p", "s", ":", "/", "/", "w", "w", "w", ".", "y", "o", "u", "t", "u", "b", "e", ".", "c", "o", "m", "/", "w", "a", "t", "c", "h", "/", "e", "m", "b", "e", "d">>,
    \* https://youtube.com/embed/.a/../dQw4w9WgXcQ
    <<"h", "t", "t", "p", "s", ":", "/", "/", "y", "o", "u", "t", "u", "b", "e", ".", "c", "o", "m", "/", "e", "m", "b", "e", "d", "/", ".", "a", "/", ".", ".", "/", "d", "Q", "w", "4", "w", "9", "W", "g", "X", "c", "Q">>,
    \* https://youtu.be/dQw4w<TAB>9WgXcQ
    <<"h", "t", "t", "p", "s", ":", "/", "/", "y", "o", "u", "t", "u", ".", "b", "e", "/", "d", "Q", "w", "4", "w", "\t", "9", "W", "g", "X", "c", "Q">>,
    \* https://youtu.be:99999/dQw4w9WgXcQ
    <<"h", "t", "t", "p", "s", ":", "/", "/", "y", "o", "u", "t", "u", ".", "b", "e", ":", "9", "9", "9", "9", "9", "/", "d", "Q", "w", "4", "w", "9", "W", "g", "X", "c", "Q">>,
    \* vimeo:/a/../b?v=dQw4w9WgXcQ
    <<"v", "i", "m", "e", "o", ":", "/", "a", "/", ".", ".", "/", "b", "?", "v", "=", "d", "Q", "w", "4", "w", "9", "W", "g", "X", "c", "Q">>,
    <<>> }

(* --------------------------- read-only routes -------------------------- *)

ReadOnly(r) ==
  /\ resp' = r
  /\ UNCHANGED <<db, store, pending, destroying, loggedOut>>

GetHome(s) ==
  ReadOnly(Guarded("GET /", s, requireAuth(s), RenderRows("index", 0, ListModules)))

\* GET / of the server.js kept in src/unnamed/part_001, which checks the
\* session in the handler instead of behind requireAuth.
GetHomeInline(s) ==
  ReadOnly(Reply("GET /", s, TRUE,
                 IF store[s] = NoUser THEN Redirect("/login")
                 ELSE RenderRows("index", 0, ListModules)))

GetSyllabus(s) ==
  ReadOnly(Guarded("GET /syllabus", s, requireAuth(s), Render(200, "syllabus", "", NoForm)))

GetQas(s) ==
  ReadOnly(Guarded("GET /qas", s, requireAuth(s), Render(200, "qas", "", NoForm)))

GetModules(s) ==
  ReadOnly(Guarded("GET /modules", s, requireAuth(s), RenderRows("modules", 0, ListModules)))

GetModule_LookupFirst(s, id) ==
  ReadOnly(IF id \notin DOMAIN modules
           THEN Reply("GET /modules/:id", s, TRUE, Send(404, "Module not found"))
           ELSE Guarded("GET /modules/:id", s, requireAuth(s),
                        RenderRows("module", id, ListLessons(id))))
GetModule(s, id) ==
  ReadOnly(Guarded("GET /modules/:id", s, requireAuth(s),
                   IF id \notin DOMAIN modules THEN Send(404, "Module not found")
                   ELSE RenderRows("module", id, ListLessons(id))))

\* The JOIN on modules finds the lesson only if its module exists.
GetLesson(s, id, parser) ==
  ReadOnly(Guarded("GET /lessons/:id", s, requireAuth(s),
                   IF id \notin DOMAIN lessons \/ lessons[id].module_id \notin DOMAIN modules
                   THEN Send(404, "Lesson not found")
                   ELSE RenderLesson(id, parseYouTube(lessons[id].youtube_url, parser))))

\* GET /lessons/:id of the server.js kept in src/unnamed/part_001.
GetLessonFallback(s, id, parser) ==
  ReadOnly(Guarded("GET /lessons/:id", s, requireAuth(s),
                   IF id \notin DOMAIN lessons \/ lessons[id].module_id \notin DOMAIN modules
                   THEN Send(404, "Lesson not found")
                   ELSE RenderLesson(id, parseYouTubeFallback(lessons[id].youtube_url, parser))))

(* ----------------------------- admin routes ---------------------------- *)

GetAdmin(s) ==
  ReadOnly(Guarded("GET /admin", s, requireAdmin(s), RenderRows("admin", 0, ListModules)))

GetAdminModuleNew(s) ==
  ReadOnly(Guarded("GET /admin/modules/new", s, requireAdmin(s),
                   Render(200, "admin-module", "",
                          <<[title |-> <<>>, description |-> <<>>, sort_order |-> Num(0)]>>)))

PostAdminModuleNew(s, body) ==
  LET g == requireAdmin(s)
      title == Trim(body.title)
      description == Trim(body.description)
      sort_order == NumberOrZero(body.sort_order)
      route == "POST /admin/modules/new"
  IN
  /\ UNCHANGED <<users, lessons, nextLessonId, store, pending, destroying, loggedOut>>
  /\ IF g # Pass \/ TitleMissing(title)
     THEN /\ resp' = Guarded(route, s, g,
                       Render(200, "admin-module", "Title is required.",
                              <<[title |-> title, description |-> description,
                                 sort_order |-> sort_order]>>))
          /\ UNCHANGED <<modules, nextModuleId>>
     ELSE IF sort_order.nan
     THEN \* NaN binds as NULL: sort_order INTEGER NOT NULL rejects the INSERT
          /\ resp' = Reply(route, s, TRUE, ServerError)
          /\ UNCHANGED <<modules, nextModuleId>>
     ELSE /\ nextModuleId <= MaxModuleId
          /\ modules' = modules @@ (nextModuleId :>
                [title |-> title, description |-> description, sort_order |-> sort_order])
          /\ nextModuleId' = nextModuleId + 1
          /\ resp' = Reply(route, s, TRUE, Redirect("/admin"))

GetAdminModuleEdit(s, id) ==
  ReadOnly(Guarded("GET /admin/modules/:id/edit", s, requireAdmin(s),
                   IF id \notin DOMAIN modules THEN Send(404, "Module not found")
                   ELSE Render(200, "admin-module", "",
                               <<[id |-> id, title |-> modules[id].title,
                                  description |-> modules[id].description,
                                  sort_order |-> modules[id].sort_order]>>)))

PostAdminModuleEdit(s, id, body) ==
  LET g == requireAdmin(s)
      title == Trim(body.title)
      description == Trim(body.description)
      sort_order == NumberOrZero(body.sort_order)
      route == "POST /admin/modules/:id/edit"
  IN
  /\ UNCHANGED <<users, lessons, nextModuleId, nextLessonId, store, pending, destroying, loggedOut>>
  /\ IF g # Pass \/ TitleMissing(title)
     THEN /\ resp' = Guarded(route, s, g,
                       Render(200, "admin-module", "Title is required.",
                              <<[id |-> id, title |-> title, description |-> description,
                                 sort_order |-> sort_order]>>))
          /\ UNCHANGED modules
     ELSE IF sort_order.nan
     THEN \* the UPDATE's NOT NULL check runs only for a row that matches
          /\ resp' = Reply(route, s, TRUE,
                           IF id \in DOMAIN modules THEN ServerError ELSE Redirect("/admin"))
          /\ UNCHANGED modules
     ELSE /\ modules' = IF id \in DOMAIN modules
                        THEN [modules EXCEPT ![id] =
                                [title |-> title, description |-> description,
                                 sort_order |-> sort_order]]
                        ELSE modules
          /\ resp' = Reply(route, s, TRUE, Redirect("/admin"))

PostAdminModuleDelete_Unguarded(s, id) ==
  /\ UNCHANGED <<users, nextModuleId, nextLessonId, store, pending, destroying, loggedOut>>
  /\ resp' = Guarded("POST /admin/modules/:id/delete", s, requireAdmin(s), Redirect("/admin"))
  /\ modules' = Without(modules, id)
  /\ lessons' = LessonsAfterModuleDelete(id)
PostAdminModuleDelete(s, id) ==
  LET g == requireAdmin(s) IN
  /\ UNCHANGED <<users, nextModuleId, nextLessonId, store, pending, destroying, loggedOut>>
  /\ resp' = Guarded("POST /admin/modules/:id/delete", s, g, Redirect("/admin"))
  /\ IF g = Pass
     THEN /\ modules' = Without(modules, id)
          /\ lessons' = LessonsAfterModuleDelete(id)
     ELSE UNCHANGED <<modules, lessons>>

GetAdminLessonNew(s, moduleId) ==
  ReadOnly(Guarded("GET /admin/modules/:moduleId/lessons/new", s, requireAdmin(s),
                   IF moduleId \notin DOMAIN modules THEN Send(404, "Module not found")
                   ELSE Render(200, "admin-lesson", "",
                               <<[title |-> <<>>, youtube_url |-> <<>>, sort_order |-> Num(0),
                                  content_md |-> <<>>]>>)))

PostAdminLessonNew_NoModuleCheck(s, moduleId, body) ==
  LET g == requireAdmin(s)
      title == Trim(body.title)
      youtube_url == Trim(body.youtube_url)
      sort_order == NumberOrZero(body.sort_order)
      content_md == Trim(body.content_md)
      route == "POST /admin/modules/:moduleId/lessons/new"
  IN
  /\ UNCHANGED <<users, modules, nextModuleId, store, pending, destroying, loggedOut>>
  /\ IF g # Pass \/ TitleMissing(title)
     THEN /\ resp' = Guarded(route, s, g,
                       Render(200, "admin-lesson", "Title is required.",
                              <<[title |-> title, youtube_url |-> youtube_url,
                                 sort_order |-> sort_order, content_md |-> content_md]>>))
          /\ UNCHANGED <<lessons, nextLessonId>>
     ELSE IF sort_order.nan
     THEN /\ resp' = Reply(route, s, TRUE, ServerError)
          /\ UNCHANGED <<lessons, nextLessonId>>
     ELSE /\ nextLessonId <= MaxLessonId
          /\ lessons' = lessons @@ (nextLessonId :>
                [module_id |-> moduleId, title |-> title, content_md |-> content_md,
                 youtube_url |-> youtube_url, sort_order |-> sort_order])
          /\ nextLessonId' = nextLessonId + 1
          /\ resp' = Reply(route, s, TRUE, Redirect("/admin"))

PostAdminLessonNew(s, moduleId, body) ==
  LET g == requireAdmin(s)
      title == Trim(body.title)
      youtube_url == Trim(body.youtube_url)
      sort_order == NumberOrZero(body.sort_order)
      content_md == Trim(body.content_md)
      route == "POST /admin/modules/:moduleId/lessons/new"
  IN
  /\ UNCHANGED <<users, modules, nextModuleId, store, pending, destroying, loggedOut>>
  /\ IF g # Pass \/ moduleId \notin DOMAIN modules \/ TitleMissing(title)
     THEN /\ resp' = Guarded(route, s, g,
                       IF moduleId \notin DOMAIN modules THEN Send(404, "Module not found")
                       ELSE Render(200, "admin-lesson", "Title is required.",
                                   <<[title |-> title, youtube_url |-> youtube_url,
                                      sort_order |-> sort_order, content_md |-> content_md]>>))
          /\ UNCHANGED <<lessons, nextLessonId>>
     ELSE IF sort_order.nan
     THEN /\ resp' = Reply(route, s, TRUE, ServerError)
          /\ UNCHANGED <<lessons, nextLessonId>>
     ELSE /\ nextLessonId <= MaxLessonId
          /\ lessons' = lessons @@ (nextLessonId :>
                [module_id |-> moduleId, title |-> title, content_md |-> content_md,
                 youtube_url |-> youtube_url, sort_order |-> sort_order])
          /\ nextLessonId' = nextLessonId + 1
          /\ resp' = Reply(route, s, TRUE, Redirect("/admin"))

GetAdminLessonEdit(s, id) ==
  ReadOnly(Guarded("GET /admin/lessons/:id/edit", s, requireAdmin(s),
                   IF id \notin DOMAIN lessons THEN Send(404, "Lesson not found")
                   ELSE Render(200, "admin-lesson", "",
                               <<[id |-> id, module_id |-> lessons[id].module_id,
                                  title |-> lessons[id].title,
                                  youtube_url |-> lessons[id].youtube_url,
                                  sort_order |-> lessons[id].sort_order,
                                  content_md |-> lessons[id].content_md]>>)))

PostAdminLessonEdit(s, id, body) ==
  LET g == requireAdmin(s)
      title == Trim(body.title)
      youtube_url == Trim(body.youtube_url)
      sort_order == NumberOrZero(body.sort_order)
      content_md == Trim(body.content_md)
      route == "POST /admin/lessons/:id/edit"
  IN
  /\ UNCHANGED <<users, modules, nextModuleId, nextLessonId, store, pending, destroying, loggedOut>>
  /\ IF g # Pass \/ id \notin DOMAIN lessons \/ TitleMissing(title)
     THEN /\ resp' = Guarded(route, s, g,
                       IF id \notin DOMAIN lessons THEN Send(404, "Lesson not found")
                       ELSE Render(200, "admin-lesson", "Title is required.",
                                   <<[id |-> id, module_id |-> lessons[id].module_id,
                                      title |-> title, youtube_url |-> youtube_url,
                                      sort_order |-> sort_order, content_md |-> content_md]>>))
          /\ UNCHANGED lessons
     ELSE IF sort_order.nan
     THEN /\ resp' = Reply(route, s, TRUE, ServerError)
          /\ UNCHANGED lessons
     ELSE /\ lessons' = [lessons EXCEPT ![id] =
                [module_id |-> lessons[id].module_id, title |-> title,
                 content_md |-> content_md, youtube_url |-> youtube_url,
                 sort_order |-> sort_order]]
          /\ resp' = Reply(route, s, TRUE, Redirect("/admin"))

PostAdminLessonDelete_NotFound(s, id) ==
  LET g == requireAdmin(s) IN
  /\ UNCHANGED <<users, modules, nextModuleId, nextLessonId, store, pending, destroying, loggedOut>>
  /\ resp' = Guarded("POST /admin/lessons/:id/delete", s, g,
                     IF id \in DOMAIN lessons THEN Redirect("/admin")
                     ELSE Send(404, "Lesson not found"))
  /\ lessons' = IF g = Pass THEN Without(lessons, id) ELSE lessons
PostAdminLessonDelete(s, id) ==
  LET g == requireAdmin(s) IN
  /\ UNCHANGED <<users, modules, nextModuleId, nextLessonId, store, pending, destroying, loggedOut>>
  /\ resp' = Guarded("POST /admin/lessons/:id/delete", s, g, Redirect("/admin"))
  /\ lessons' = IF g = Pass THEN Without(lessons, id) ELSE lessons

(* --------------------------- specifications --------------------------- *)

SessionStep ==
  \/ \E s \in Sessions : GetLogin(s)
  \/ \E s \in Sessions, e \in EmailInputs, pw \in PasswordInputs : PostLogin(s, e, pw)
  \/ \E p \in BagToSet(pending) : PostLoginResume(p)
  \/ \E s \in Sessions : PostLogout(s)
  \/ \E s \in Sessions : PostLogoutCallback(s)

ReadStep ==
  \/ \E s \in Sessions : GetHome(s)
  \/ \E s \in Sessions : GetSyllabus(s)
  \/ \E s \in Sessions : GetQas(s)
  \/ \E s \in Sessions : GetModules(s)
  \/ \E s \in Sessions, id \in ModuleIdParams : GetModule(s, id)
  \/ \E s \in Sessions, id \in LessonIdParams, parser \in Parsers : GetLesson(s, id, parser)

AdminStep ==
  \/ \E s \in Sessions : GetAdmin(s)
  \/ \E s \in Sessions : GetAdminModuleNew(s)
  \/ \E s \in Sessions, body \in ModuleBodies : PostAdminModuleNew(s, body)
  \/ \E s \in Sessions, id \in ModuleIdParams : GetAdminModuleEdit(s, id)
  \/ \E s \in Sessions, id \in ModuleIdParams, body \in ModuleBodies :
       PostAdminModuleEdit(s, id, body)
  \/ \E s \in Sessions, id \in ModuleIdParams : PostAdminModuleDelete(s, id)
  \/ \E s \in Sessions, id \in ModuleIdParams : GetAdminLessonNew(s, id)
  \/ \E s \in Sessions, id \in ModuleIdParams, body \in LessonBodies :
       PostAdminLessonNew(s, id, body)
  \/ \E s \in Sessions, id \in LessonIdParams : GetAdminLessonEdit(s, id)
  \/ \E s \in Sessions, id \in LessonIdParams, body \in LessonBodies :
       PostAdminLessonEdit(s, id, body)
  \/ \E s \in Sessions, id \in LessonIdParams : PostAdminLessonDelete(s, id)

\* The whole server.
Next == SessionStep \/ ReadStep \/ AdminStep
Spec == Init /\ [][Next]_vars

\* Sessions being established and destroyed.
SessionNext == SessionStep
SpecSession == Init /\ [][SessionNext]_vars

\* The routes behind the authenticated guard, asked by sessions that logged
\* in before, each as the admin, as the student or not at all, and that
\* log out.
InitGuard ==
  /\ users = seedUsers
  /\ modules = seedModules
  /\ lessons = seedLessons
  /\ nextModuleId = 2
  /\ nextLessonId = 3
  /\ store \in [Sessions -> {NoUser,
                             [id |-> 1, email |-> seedUsers[1].email, role |-> "admin"],
                             [id |-> 2, email |-> seedUsers[2].email, role |-> "student"]}]
  /\ pending = EmptyBag
  /\ destroying = [s \in Sessions |-> 0]
  /\ resp = NoReply
  /\ loggedOut = {}
GuardNext ==
  \/ ReadStep
  \/ \E s \in Sessions : PostLogout(s)
  \/ \E s \in Sessions : PostLogoutCallback(s)
SpecGuard == InitGuard /\ [][GuardNext]_vars

\* The content routes, asked by sessions that logged in before: the first
\* as the admin, the second as the student or not at all.
InitContent ==
  /\ users = seedUsers
  /\ modules = seedModules
  /\ lessons = seedLessons
  /\ nextModuleId = 2
  /\ nextLessonId = 3
  /\ store \in {[s \in Sessions |-> IF s = "s1" THEN [id |-> 1, email |-> seedUsers[1].email, role |-> "admin"] ELSE u] :
                u \in {NoUser, [id |-> 2, email |-> seedUsers[2].email, role |-> "student"]}}
  /\ pending = EmptyBag
  /\ destroying = [s \in Sessions |-> 0]
  /\ resp = NoReply
  /\ loggedOut = {}
ContentNext == ReadStep \/ AdminStep
SpecContent == InitContent /\ [][ContentNext]_vars

\* Lesson pages over every stored youtube_url, asked by a student's session
\* and by a session without a user, answered by either version of the route.
InitYouTube ==
  /\ users = seedUsers
  /\ modules = seedModules
  /\ \E url \in YouTubeInputs : lessons = [seedLessons EXCEPT ![1].youtube_url = url]
  /\ nextModuleId = 2
  /\ nextLessonId = 3
  /\ store = [s \in Sessions |->
                IF s = "s1" THEN [id |-> 2, email |-> seedUsers[2].email, role |-> "student"]
                ELSE NoUser]
  /\ pending = EmptyBag
  /\ destroying = [s \in Sessions |-> 0]
  /\ resp = NoReply
  /\ loggedOut = {}
YouTubeNext ==
  \/ \E s \in Sessions, id \in LessonIdParams, parser \in Parsers : GetLesson(s, id, parser)
  \/ \E s \in Sessions, id \in LessonIdParams, parser \in Parsers :
       GetLessonFallback(s, id, parser)
SpecYouTube == InitYouTube /\ [][YouTubeNext]_vars

\* / and /login, / in either version, asked by sessions that logged in
\* before and that log out.
RedirectNext ==
  \/ \E s \in Sessions : GetLogin(s)
  \/ \E s \in Sessions : GetHome(s)
  \/ \E s \in Sessions : GetHomeInline(s)
  \/ \E s \in Sessions : PostLogout(s)
  \/ \E s \in Sessions : PostLogoutCallback(s)
SpecRedirect == InitGuard /\ [][RedirectNext]_vars

(* ------------------------------- claims -------------------------------- *)

\* This step suspended the login p; this step resumed the suspended login p.
Suspended(p) == pending' = pending (+) SetToBag({p})
Resumed(p) == BagIn(p, pending) /\ pending' = pending (-) SetToBag({p})

AdminRoutes ==
  { "GET /admin", "GET /admin/modules/new", "POST /admin/modules/new",
    "GET /admin/modules/:id/edit", "POST /admin/modules/:id/edit",
    "POST /admin/modules/:id/delete", "GET /admin/modules/:moduleId/lessons/new",
    "POST /admin/modules/:moduleId/lessons/new", "GET /admin/lessons/:id/edit",
    "POST /admin/lessons/:id/edit", "POST /admin/lessons/:id/delete" }

AdminWriteRoutes ==
  { "POST /admin/modules/new", "POST /admin/modules/:id/edit",
    "POST /admin/modules/:id/delete", "POST /admin/modules/:moduleId/lessons/new",
    "POST /admin/lessons/:id/edit", "POST /admin/lessons/:id/delete" }

\* A step in which session s asks one of the GET routes behind the
\* authenticated guard.
AuthRouteStep(s) ==
  \/ GetHome(s) \/ GetSyllabus(s) \/ GetQas(s) \/ GetModules(s)
  \/ \E id \in ModuleIdParams : GetModule(s, id)
  \/ \E id \in LessonIdParams, parser \in Parsers : GetLesson(s, id, parser)

\* The guard's refusal: the redirect to /login, the handler body not run,
\* nothing changed.
RefusedByGuard(s) ==
  /\ resp'.sid = s /\ ~resp'.ran
  /\ resp'.status = 302 /\ resp'.location = "/login"
  /\ UNCHANGED <<db, store, pending, destroying>>

\* C1: on every /admin route, a session without a user is redirected to
\* /login, a session whose user is not an admin gets 403 "Forbidden" and no
\* redirect, and the handler body runs exactly for an admin's session.
C1_AdminGuard ==
  resp.route \in AdminRoutes =>
    /\ store[resp.sid] = NoUser =>
         resp.status = 302 /\ resp.location = "/login"
    /\ (store[resp.sid] # NoUser /\ store[resp.sid].role # "admin") =>
         resp.status = 403 /\ resp.text = "Forbidden" /\ resp.location = ""
    /\ resp.ran <=> store[resp.sid].role = "admin"

\* C1 witness: a student's POST /admin/modules/new was answered 403.
C1_Witness ==
  /\ resp.route = "POST /admin/modules/new"
  /\ store[resp.sid].role = "student"
  /\ resp.status = 403

\* C2: on every route behind the authenticated guard the handler body runs
\* exactly when the session carries a user; otherwise the answer is a
\* redirect to /login, never a 401, and nothing changes. The body of POST
\* /logout is seen running by the session's entry being destroyed.
C2_AuthGuard ==
  [][\A s \in Sessions :
       /\ AuthRouteStep(s) =>
            /\ resp'.ran <=> store[s] # NoUser
            /\ store[s] = NoUser => RefusedByGuard(s)
            /\ resp'.status # 401
       /\ PostLogout(s) =>
            /\ destroying'[s] = destroying[s] + 1 <=> store[s] # NoUser
            /\ store[s] = NoUser => RefusedByGuard(s)
            /\ store[s] # NoUser => resp' = resp
            /\ resp'.status # 401]_vars

\* C2 witness: a POST /logout of a session without a user was redirected to /login.
C2_Witness ==
  /\ resp.route = "POST /logout"
  /\ ~resp.ran
  /\ resp.location = "/login"

\* C3: the modules and lessons tables change only in an admin-write request
\* of a session whose role is admin; a request of a session without a user
\* or of a student leaves both unchanged.
C3_OnlyAdminWrites ==
  [][/\ (modules' # modules \/ lessons' # lessons) =>
          /\ resp'.route \in AdminWriteRoutes
          /\ resp'.ran
          /\ store[resp'.sid].role = "admin"
     /\ \A s \in Sessions :
          (store[s].role # "admin" /\ resp'.sid = s) => UNCHANGED <<modules, lessons>>]_vars

\* C3 witness: after the admin changed the tables, a student's delete request was refused.
C3_Witness ==
  /\ modules # seedModules
  /\ resp.route = "POST /admin/modules/:id/delete"
  /\ store[resp.sid].role = "student"
  /\ ~resp.ran

\* C4: POST /login puts a user in the session exactly when the trimmed,
\* lower-cased email is a stored user's and the password verifies against
\* that user's hash: then the session's user is that user's {id, email,
\* role} and the answer redirects to /; otherwise the answer is 401 with
\* the login form and its error, and the session is left as it was.
C4_Login ==
  [][/\ \A s \in Sessions, e \in EmailInputs, pw \in PasswordInputs :
          (/\ \/ pending' = pending /\ resp'.route = "POST /login" /\ resp'.sid = s
              \/ \E p \in BagToSet(pending') : Suspended(p) /\ p.sid = s /\ p.password = pw
           /\ PostLogin(s, e, pw)) =>
            LET known == {id \in DOMAIN users : users[id].email = ToLowerCase(Trim(e))} IN
            IF known = {}
            THEN /\ resp'.route = "POST /login" /\ resp'.sid = s
                 /\ resp'.status = 401 /\ resp'.view = "login"
                 /\ resp'.error = "Invalid email or password."
                 /\ store' = store /\ pending' = pending
            ELSE /\ \E p \in BagToSet(pending') :
                      Suspended(p) /\ p.sid = s /\ p.user \in known /\ p.password = pw
                 /\ store' = store /\ resp' = resp
     /\ \A p \in BagToSet(pending) :
          PostLoginResume(p) =>
            /\ resp'.route = "POST /login" /\ resp'.sid = p.sid
            /\ IF users[p.user].password_hash = BcryptHash(p.password)
               THEN /\ store' = [store EXCEPT ![p.sid] =
                                   [id |-> p.user, email |-> users[p.user].email,
                                    role |-> users[p.user].role]]
                    /\ resp'.status = 302 /\ resp'.location = "/"
               ELSE /\ store' = store
                    /\ resp'.status = 401 /\ resp'.view = "login"
                    /\ resp'.error = "Invalid email or password."]_vars

\* C5: after the response to a logout, every guarded request of that session
\* is redirected to /login until a POST /login made after the logout succeeds.
C5_LoggedOutStaysOut ==
  \A s \in loggedOut :
    requireAuth(s) = Redirect("/login") /\ requireAdmin(s) = Redirect("/login")

\* C6 as claimed: GET /modules/:id of an id without a module is answered 404
\* whether or not the session carries a user.
C6_NotFoundRegardlessOfAuth ==
  [][resp'.route = "GET /modules/:id" => \A s \in Sessions, id \in ModuleIdParams :
       (resp'.sid = s /\ id \notin DOMAIN modules /\ GetModule(s, id)) => resp'.status = 404]_vars

\* C6 amended: GET /modules/:id of an id without a module is answered 404
\* "Module not found", with no redirect, for a session that carries a user
\* of either role; a session without a user is redirected to /login.
C6_NotFoundWhenAuthenticated ==
  [][resp'.route = "GET /modules/:id" => \A s \in Sessions, id \in ModuleIdParams :
       (resp'.sid = s /\ id \notin DOMAIN modules /\ GetModule(s, id)) =>
         IF store[s] = NoUser
         THEN resp'.status = 302 /\ resp'.location = "/login"
         ELSE resp'.status = 404 /\ resp'.text = "Module not found"
              /\ resp'.location = ""]_vars

\* C6 witness: a student's GET /modules/:id was answered 404.
C6_Witness ==
  /\ resp.route = "GET /modules/:id"
  /\ resp.status = 404
  /\ store[resp.sid].role = "student"

\* What the module forms and the lesson forms carry of a submitted body.
ModuleValues(body) ==
  [title |-> Trim(body.title), description |-> Trim(body.description),
   sort_order |-> NumberOrZero(body.sort_order)]
LessonValues(body) ==
  [title |-> Trim(body.title), youtube_url |-> Trim(body.youtube_url),
   sort_order |-> NumberOrZero(body.sort_order), content_md |-> Trim(body.content_md)]

\* The answer is the form `view` again with the error and the values, and no row changed.
Rerendered(view, values) ==
  /\ UNCHANGED <<modules, lessons>>
  /\ resp'.status = 200 /\ resp'.location = ""
  /\ resp'.view = view
  /\ resp'.error = "Title is required."
  /\ Len(resp'.form) = 1
  /\ \A f \in DOMAIN values : f \in DOMAIN resp'.form[1] /\ resp'.form[1][f] = values[f]

NotFoundNoChange ==
  /\ UNCHANGED <<modules, lessons>>
  /\ resp'.status = 404 /\ resp'.location = ""

EditRoutes ==
  { "GET /admin/modules/:id/edit", "POST /admin/modules/:id/edit",
    "GET /admin/lessons/:id/edit", "POST /admin/lessons/:id/edit" }

\* The form bodies whose title is empty after trimming.
EmptyTitleModuleBodies == { body \in ModuleBodies : Trim(body.title) = <<>> }
EmptyTitleLessonBodies == { body \in LessonBodies : Trim(body.title) = <<>> }

\* C7 as claimed: in each of the four admin form handlers a title that is
\* empty after trimming changes no row and gets the same form again, with
\* the submitted values and the error "Title is required.".
C7_EmptyTitleRerenders ==
  [][\A s \in Sessions : (resp'.sid = s /\ store[s].role = "admin") =>
       /\ resp'.route = "POST /admin/modules/new" =>
            \A body \in EmptyTitleModuleBodies :
              PostAdminModuleNew(s, body) =>
                Rerendered("admin-module", ModuleValues(body))
       /\ resp'.route = "POST /admin/modules/:id/edit" =>
            \A body \in EmptyTitleModuleBodies, id \in ModuleIdParams :
              PostAdminModuleEdit(s, id, body) =>
                Rerendered("admin-module", ModuleValues(body))
       /\ resp'.route = "POST /admin/modules/:moduleId/lessons/new" =>
            \A body \in EmptyTitleLessonBodies, id \in ModuleIdParams :
              PostAdminLessonNew(s, id, body) =>
                Rerendered("admin-lesson", LessonValues(body))
       /\ resp'.route = "POST /admin/lessons/:id/edit" =>
            \A body \in EmptyTitleLessonBodies, id \in LessonIdParams :
              PostAdminLessonEdit(s, id, body) =>
                Rerendered("admin-lesson", LessonValues(body))]_vars

\* C7 amended: a title that is empty after trimming changes no row and gets
\* the same form again, with the error "Title is required." and the values
\* as the handler parsed them (strings trimmed, sort order converted), in the
\* two module handlers always and in the two lesson handlers when the row
\* the request names exists (the module of a new lesson, the lesson of an
\* edit); when that row does not exist the answer is 404 and no row changes.
C7_EmptyTitleRerendersIfTargetExists ==
  [][\A s \in Sessions : (resp'.sid = s /\ store[s].role = "admin") =>
       /\ resp'.route = "POST /admin/modules/new" =>
            \A body \in EmptyTitleModuleBodies :
              PostAdminModuleNew(s, body) =>
                Rerendered("admin-module", ModuleValues(body))
       /\ resp'.route = "POST /admin/modules/:id/edit" =>
            \A body \in EmptyTitleModuleBodies, id \in ModuleIdParams :
              PostAdminModuleEdit(s, id, body) =>
                Rerendered("admin-module", ModuleValues(body))
       /\ resp'.route = "POST /admin/modules/:moduleId/lessons/new" =>
            \A body \in EmptyTitleLessonBodies, id \in ModuleIdParams :
              PostAdminLessonNew(s, id, body) =>
                IF id \in DOMAIN modules
                THEN Rerendered("admin-lesson", LessonValues(body))
                ELSE NotFoundNoChange
       /\ resp'.route = "POST /admin/lessons/:id/edit" =>
            \A body \in EmptyTitleLessonBodies, id \in LessonIdParams :
              PostAdminLessonEdit(s, id, body) =>
                IF id \in DOMAIN lessons
                THEN Rerendered("admin-lesson", LessonValues(body))
                ELSE NotFoundNoChange]_vars

\* C7 witness: an admin's lesson edit with an empty title got the form again.
C7_Witness ==
  /\ resp.route = "POST /admin/lessons/:id/edit"
  /\ store[resp.sid].role = "admin"
  /\ resp.status = 200
  /\ resp.error = "Title is required."

\* C8: an admin's POST /admin/modules/new with a title that is not empty
\* after trimming adds exactly one module row, holding the trimmed title,
\* the trimmed description and the submitted sort order, leaves every other
\* module row and every lesson row as it was, and redirects to /admin.
C8_CreateModuleInsertsOneRow ==
  [][resp'.route = "POST /admin/modules/new" => \A s \in Sessions, body \in ModuleBodies :
       (PostAdminModuleNew(s, body) /\ store[s].role = "admin"
          /\ Trim(body.title) # <<>>) =>
         /\ resp'.status = 302 /\ resp'.location = "/admin"
         /\ Cardinality(DOMAIN modules') = Cardinality(DOMAIN modules) + 1
         /\ \A id \in DOMAIN modules : id \in DOMAIN modules' /\ modules'[id] = modules[id]
         /\ \A id \in DOMAIN modules' \ DOMAIN modules :
              /\ modules'[id].title = Trim(body.title)
              /\ modules'[id].description = Trim(body.description)
              /\ modules'[id].sort_order = NumberOrZero(body.sort_order)
         /\ lessons' = lessons]_vars

\* C9: an admin's POST /admin/modules/:id/delete of a module that has
\* lessons removes that module and exactly the lessons whose module_id is
\* that id; every other module and lesson stays as it was.
C9_DeleteModuleCascades ==
  [][resp'.route = "POST /admin/modules/:id/delete" => \A s \in Sessions, id \in ModuleIdParams :
       (PostAdminModuleDelete(s, id) /\ store[s].role = "admin"
          /\ id \in DOMAIN modules
          /\ \E l \in DOMAIN lessons : lessons[l].module_id = id) =>
         /\ DOMAIN modules' = DOMAIN modules \ {id}
         /\ \A m \in DOMAIN modules' : modules'[m] = modules[m]
         /\ DOMAIN lessons' = {l \in DOMAIN lessons : lessons[l].module_id # id}
         /\ \A l \in DOMAIN lessons' : lessons'[l] = lessons[l]]_vars

\* C9 witness: module 1 and its two lessons are gone after a delete, while
\* module 2 and its lesson are still there.
C9_Witness ==
  /\ resp.route = "POST /admin/modules/:id/delete"
  /\ DOMAIN modules = {2}
  /\ DOMAIN lessons = {3}
  /\ lessons[3].module_id = 2

\* C10: every admin edit request (GET and POST, of a module and of a
\* lesson) whose id matches no row is answered 404 and changes no row.
C10_EditMissingIsNotFound ==
  [][\A s \in Sessions : (resp'.route \in EditRoutes /\ resp'.sid = s /\ store[s].role = "admin") =>
       /\ \A id \in ModuleIdParams : id \notin DOMAIN modules =>
            /\ GetAdminModuleEdit(s, id) => NotFoundNoChange
            /\ \A body \in ModuleBodies :
                 PostAdminModuleEdit(s, id, body) => NotFoundNoChange
       /\ \A id \in LessonIdParams : id \notin DOMAIN lessons =>
            /\ GetAdminLessonEdit(s, id) => NotFoundNoChange
            /\ \A body \in LessonBodies :
                 PostAdminLessonEdit(s, id, body) => NotFoundNoChange]_vars

\* A sort_order field that is missing (or empty, or blank) or holds
\* something Number() reads no number from.
MissingOrNonNumeric(raw) ==
  \/ Trim(raw) = <<>>
  \/ NumberOrZero(raw) = NaN

\* An admin write that went through as a normal write: redirect to /admin.
RedirectedToAdmin == resp'.status = 302 /\ resp'.location = "/admin"

\* C11: in the four admin handlers that write a sort order, with a title
\* that is not empty and a target row that exists, a missing or non-numeric
\* sort_order is stored as 0 and the answer is the redirect to /admin.
C11_SortOrderCoercedToZero ==
  [][\A s \in Sessions : (resp'.sid = s /\ store[s].role = "admin") =>
       /\ resp'.route = "POST /admin/modules/new" =>
            \A body \in ModuleBodies :
              (Trim(body.title) # <<>> /\ MissingOrNonNumeric(body.sort_order)
                 /\ PostAdminModuleNew(s, body)) =>
                /\ RedirectedToAdmin
                /\ \E id \in DOMAIN modules' \ DOMAIN modules : modules'[id].sort_order = Num(0)
       /\ resp'.route = "POST /admin/modules/:id/edit" =>
            \A body \in ModuleBodies, id \in DOMAIN modules :
              (Trim(body.title) # <<>> /\ MissingOrNonNumeric(body.sort_order)
                 /\ PostAdminModuleEdit(s, id, body)) =>
                RedirectedToAdmin /\ modules'[id].sort_order = Num(0)
       /\ resp'.route = "POST /admin/modules/:moduleId/lessons/new" =>
            \A body \in LessonBodies, id \in DOMAIN modules :
              (Trim(body.title) # <<>> /\ MissingOrNonNumeric(body.sort_order)
                 /\ PostAdminLessonNew(s, id, body)) =>
                /\ RedirectedToAdmin
                /\ \E l \in DOMAIN lessons' \ DOMAIN lessons : lessons'[l].sort_order = Num(0)
       /\ resp'.route = "POST /admin/lessons/:id/edit" =>
            \A body \in LessonBodies, id \in DOMAIN lessons :
              (Trim(body.title) # <<>> /\ MissingOrNonNumeric(body.sort_order)
                 /\ PostAdminLessonEdit(s, id, body)) =>
                RedirectedToAdmin /\ lessons'[id].sort_order = Num(0)]_vars

\* C12: an admin's delete request (of a module or of a lesson) is answered
\* with the redirect to /admin and leaves no row with that id; when no row
\* had that id, as after an earlier delete of it, the tables and their
\* counters are left as they were.
C12_DeleteIdempotent ==
  [][\A s \in Sessions : (resp'.sid = s /\ store[s].role = "admin") =>
       /\ resp'.route = "POST /admin/modules/:id/delete" =>
            \A id \in ModuleIdParams : PostAdminModuleDelete(s, id) =>
              /\ RedirectedToAdmin
              /\ id \notin DOMAIN modules'
              /\ id \notin DOMAIN modules => UNCHANGED db
       /\ resp'.route = "POST /admin/lessons/:id/delete" =>
            \A id \in LessonIdParams : PostAdminLessonDelete(s, id) =>
              /\ RedirectedToAdmin
              /\ id \notin DOMAIN lessons'
              /\ id \notin DOMAIN lessons => UNCHANGED db]_vars

\* C12 witness: an admin's delete of a lesson id that never existed was
\* answered with the redirect, the seeded lessons still in place.
C12_Witness ==
  /\ resp.route = "POST /admin/lessons/:id/delete"
  /\ resp.ran /\ resp.status = 302 /\ resp.location = "/admin"
  /\ nextLessonId = 3
  /\ lessons = seedLessons

\* `rows` lists exactly the ids `ids` of `table`, each once, in ascending
\* sort_order with ties in ascending id.
ListedInOrder(rows, table, ids) ==
  /\ {rows[i] : i \in 1..Len(rows)} = ids
  /\ Len(rows) = Cardinality(ids)
  /\ \A i, j \in 1..Len(rows) : i < j =>
        \/ NumLess(table[rows[i]].sort_order, table[rows[j]].sort_order)
        \/ /\ table[rows[i]].sort_order = table[rows[j]].sort_order
           /\ rows[i] < rows[j]

\* C18: the pages /, /modules and /admin list every module, and the page
\* /modules/:id lists exactly the lessons whose module_id is :id, each in
\* ascending sort_order with ties broken by ascending id.
C18_ListingsOrdered ==
  /\ resp.view \in {"index", "modules", "admin"} =>
       ListedInOrder(resp.rows, modules, DOMAIN modules)
  /\ resp.view = "module" =>
       ListedInOrder(resp.rows, lessons,
                     {l \in DOMAIN lessons : lessons[l].module_id = resp.id})

\* C18 witness: a module page listing three lessons out of id order, two of
\* them with the same sort_order.
C18_Witness ==
  /\ resp.view = "module"
  /\ resp.rows = <<1, 3, 2>>
  /\ lessons[1].sort_order = lessons[3].sort_order

\* C16: a logout, a login that completes (with success or failure) or a
\* login that is answered or suspended, performed on one session, leaves
\* every other session's user as it was; a session's user changes only in a
\* login or logout request of that same session.
C16_SessionsIsolated ==
  [][\A s \in Sessions :
       /\ (PostLogout(s) \/ PostLogoutCallback(s)) =>
            \A t \in Sessions \ {s} : store'[t] = store[t]
       /\ \A p \in BagToSet(pending) :
            (p.sid = s /\ PostLoginResume(p)) =>
              \A t \in Sessions \ {s} : store'[t] = store[t]
       /\ ((pending' = pending /\ resp'.route = "POST /login" /\ resp'.sid = s
              /\ resp' # resp)
            \/ \E p \in BagToSet(pending') : Suspended(p) /\ p.sid = s) =>
              \A t \in Sessions \ {s} : store'[t] = store[t]
       /\ store'[s] # store[s] =>
            \/ resp'.sid = s /\ resp'.route = "POST /login"
            \/ destroying'[s] > destroying[s]]_vars

\* C16 witness: one session has logged out while the other still carries its user.
C16_Witness ==
  /\ resp.route = "POST /logout" /\ resp.ran
  /\ store[resp.sid] = NoUser /\ destroying[resp.sid] = 0
  /\ \E t \in Sessions \ {resp.sid} : store[t] # NoUser

\* C19: a session that carries a user carries the id, email and role of a
\* stored user; when a POST /login of the session has just succeeded, a user
\* the session carries is the user of that login, the session's most recent
\* successful one; and a session's user changes only when a POST /login of
\* that session completes with a password that verifies against the hash of
\* the user found by the submitted email, or when a POST /logout of that
\* session removes it; every other request, a failed login included, leaves
\* the session's user and role as they were.
C19_RoleOnlyByLogin ==
  [][\A s \in Sessions :
       /\ store'[s] # NoUser =>
            \E id \in DOMAIN users :
              store'[s] = [id |-> id, email |-> users[id].email, role |-> users[id].role]
       /\ \A p \in BagToSet(pending) :
            (p.sid = s /\ users[p.user].password_hash = BcryptHash(p.password)
               /\ PostLoginResume(p)) =>
              \/ store'[s] = NoUser
              \/ store'[s] = [id |-> p.user, email |-> users[p.user].email,
                              role |-> users[p.user].role]
       /\ store'[s] # store[s] =>
            \/ /\ store'[s] = NoUser
               /\ destroying'[s] > destroying[s]
            \/ /\ resp'.route = "POST /login" /\ resp'.sid = s /\ resp'.status = 302
               /\ \E p \in BagToSet(pending) :
                    /\ Resumed(p)
                    /\ p.sid = s
                    /\ users[p.user].password_hash = BcryptHash(p.password)
                    /\ store'[s] = [id |-> p.user, email |-> users[p.user].email,
                                    role |-> users[p.user].role]]_vars

\* The answer of a failed login: status 401 and the login form with its error.
FailedLoginAnswer ==
  /\ resp'.route = "POST /login"
  /\ resp'.status = 401 /\ resp'.location = ""
  /\ resp'.view = "login" /\ resp'.error = "Invalid email or password."
  /\ resp'.text = "" /\ resp'.form = NoForm

\* C20: a POST /login that fails, at once for an unknown email or after the
\* password check for a wrong password, leaves every session's user and the
\* users, modules and lessons tables as they were, also when the session
\* carries a user; both failures get the same answer.
C20_FailedLoginChangesNothing ==
  [][/\ \A s \in Sessions, e \in EmailInputs :
          (/\ pending' = pending /\ resp'.route = "POST /login" /\ resp'.sid = s
           /\ \A id \in DOMAIN users : users[id].email # ToLowerCase(Trim(e))
           /\ \E pw \in PasswordInputs : PostLogin(s, e, pw)) =>
            FailedLoginAnswer /\ UNCHANGED <<store, db>>
     /\ \A p \in BagToSet(pending) :
          (users[p.user].password_hash # BcryptHash(p.password) /\ PostLoginResume(p)) =>
            FailedLoginAnswer /\ resp'.sid = p.sid /\ UNCHANGED <<store, db>>
     /\ pending' # pending => UNCHANGED db]_vars

\* C20 witness: a login with a wrong password failed on a session that carries a user.
C20_Witness ==
  /\ resp.route = "POST /login" /\ resp.status = 401
  /\ store[resp.sid] # NoUser

\* Every lesson row's module_id is the id of a module row.
LessonsReferenceModules ==
  \A l \in DOMAIN lessons : lessons[l].module_id \in DOMAIN modules

\* C17: in every reachable state every lesson's module_id is the id of an
\* existing module; an admin's POST /admin/modules/:moduleId/lessons/new
\* for a moduleId without a module is answered 404 and inserts nothing; and
\* a lesson is inserted only under a module that exists both before and
\* after the request (the check and the insert are one step).
C17_LessonsReferenceModules ==
  /\ []LessonsReferenceModules
  /\ [][\A s \in Sessions :
          (resp'.sid = s /\ store[s].role = "admin"
             /\ resp'.route = "POST /admin/modules/:moduleId/lessons/new") =>
            /\ \A id \in ModuleIdParams \ DOMAIN modules, body \in LessonBodies :
                 PostAdminLessonNew(s, id, body) =>
                   /\ resp'.status = 404 /\ resp'.text = "Module not found"
                   /\ UNCHANGED <<modules, lessons, nextLessonId>>
            /\ \A l \in DOMAIN lessons' \ DOMAIN lessons :
                 /\ lessons'[l].module_id \in DOMAIN modules
                 /\ lessons'[l].module_id \in DOMAIN modules']_vars

\* C17 witness: after module 1 was deleted with its lessons, a request to
\* create a lesson under it was answered 404, and a lesson of module 2 remains.
C17_Witness ==
  /\ resp.route = "POST /admin/modules/:moduleId/lessons/new"
  /\ resp.ran /\ resp.status = 404
  /\ DOMAIN modules = {2}
  /\ DOMAIN lessons = {3}

\* C13: for every video id x, the lesson page of a lesson whose youtube_url
\* is the watch URL, the youtu.be URL, the embed URL or the shorts URL of x,
\* or x alone, carries x as its video id.
C13_EveryFormGivesTheId ==
  [][resp'.view = "lesson" =>
       \A s \in Sessions, id \in DOMAIN lessons, parser \in Parsers :
         GetLesson(s, id, parser) => \A x \in VideoIds :
           lessons[id].youtube_url \in {WatchUrl(x), ShortUrl(x), EmbedUrl(x), ShortsUrl(x), x}
             => resp'.videoId = Str(x)]_vars

\* C14: a lesson page is always answered (the normalizer does not throw)
\* and its video id is either null or 11 characters over [A-Za-z0-9_-],
\* whatever the lesson's youtube_url.
C14_NullOrElevenCharacters ==
  resp.view = "lesson" =>
    /\ resp.status = 200
    /\ resp.videoId = Null \/ (~resp.videoId.null /\ IsBareId(resp.videoId.val))

\* The segment after the first of the markers embed, shorts, live (in that
\* priority) that is among the path's segments; null when none is, or when
\* nothing follows it.
AfterFirstMarker(parts) ==
  IF IndexOf(parts, <<"e", "m", "b", "e", "d">>) > 0 THEN PartAfter(parts, IndexOf(parts, <<"e", "m", "b", "e", "d">>))
  ELSE IF IndexOf(parts, <<"s", "h", "o", "r", "t", "s">>) > 0 THEN PartAfter(parts, IndexOf(parts, <<"s", "h", "o", "r", "t", "s">>))
  ELSE IF IndexOf(parts, <<"l", "i", "v", "e">>) > 0 THEN PartAfter(parts, IndexOf(parts, <<"l", "i", "v", "e">>))
  ELSE Null

\* C15: for a youtube_url that parses as a URL whose host ends with
\* youtube.com, the video id is the v query parameter when that is present
\* and not empty, and otherwise the segment after the highest-priority
\* marker present in the path, no lower-priority marker being consulted.
C15_MarkerPriority ==
  [][resp'.view = "lesson" =>
       \A s \in Sessions, id \in DOMAIN lessons, parser \in Parsers :
         GetLessonFallback(s, id, parser) =>
         LET u == URL(lessons[id].youtube_url, parser)
             v == SearchParamsGet(u.search, <<"v">>)
         IN (u.ok /\ EndsWith(u.hostname, <<"y", "o", "u", "t", "u", "b", "e", ".", "c", "o", "m">>)) =>
              resp'.videoId = IF ~v.null /\ v.val # <<>> THEN v
                              ELSE AfterFirstMarker(FilterBoolean(Split(u.pathname, "/")))]_vars

\* The last response sent session s from `route` to `location`.
RedirectedFrom(s, route, location) ==
  /\ resp.sid = s /\ resp.route = route
  /\ resp.status = 302 /\ resp.location = location

\* C21: / and /login never redirect to each other in a cycle. Each answers
\* with its page or with a redirect to the other; a session sent from / to
\* /login gets the login form there, and a session sent from /login to /
\* gets the home page there, so one redirect at most is followed (the
\* session being as it was at the redirect: no logout of it is under way).
C21_NoRedirectCycle ==
  [][\A s \in Sessions :
       /\ (resp'.sid = s /\ resp'.route = "GET /" /\ (GetHome(s) \/ GetHomeInline(s))) =>
            /\ \/ resp'.status = 200 /\ resp'.view = "index" /\ store[s] # NoUser
               \/ resp'.status = 302 /\ resp'.location = "/login" /\ store[s] = NoUser
            /\ (RedirectedFrom(s, "GET /login", "/") /\ destroying[s] = 0) =>
                 resp'.status = 200 /\ resp'.view = "index"
       /\ (resp'.sid = s /\ resp'.route = "GET /login" /\ GetLogin(s)) =>
            /\ \/ resp'.status = 200 /\ resp'.view = "login" /\ store[s] = NoUser
               \/ resp'.status = 302 /\ resp'.location = "/" /\ store[s] # NoUser
            /\ (RedirectedFrom(s, "GET /", "/login") /\ destroying[s] = 0) =>
                 resp'.status = 200 /\ resp'.view = "login"]_vars

\* C21 witness: a session that logged out was answered the login form at
\* /login, where / sends it.
C21_Witness ==
  /\ resp.route = "GET /login"
  /\ resp.status = 200 /\ resp.view = "login"
  /\ resp.sid \in loggedOut
  /\ requireAuth(resp.sid) = Redirect("/login")

====
